---- MODULE Spec2Model ----
(***************************************************************************)
(* A model of metrics-aggregate.py: the module-level argument handling,    *)
(* process_files, read_file, record_metrics_line, field_value and          *)
(* print_metrics.                                                          *)
(*                                                                         *)
(* Python strings that the program slices, scans or parses are sequences   *)
(* of one-character strings (<<"t","m">> is 'tm'); attribute names and     *)
(* exception names are TLA+ strings.  A line of a metrics file is the      *)
(* sequence of the fields line.split(', ') yields.  The local time zone    *)
(* of datetime.timestamp() and datetime.fromtimestamp() is taken to be UTC.*)
(***************************************************************************)
EXTENDS Integers, Sequences, FiniteSets, TLC

VARIABLES
    args,                      \* argparse's result: aggregate, sort, units, grep, files
    pc,                        \* position of the script
    error,                     \* the exception or exit that ended the run, "" if none
    milliseconds_aggregation,  \* module global, line 227
    sort_fields,               \* module global, line 21
    unit_divisor,              \* module global, line 24
    compiled_regex,            \* process_files local, line 172
    regex_func,                \* process_files local, line 171 ("filter_by_regex" or None)
    file_index,                \* index into args.files of the file being read
    file_date,                 \* read_file local, line 114 (days since 1970-01-01)
    lines_read,                \* number of lines read so far, all files together
    metrics,                   \* module global, line 15: key -> MetricsTuple
    key_order,                 \* insertion order of the keys of the metrics dict
    sorted_metrics,            \* process_files local, line 192
    output,                    \* the rows printed to stdout so far
    last,                      \* history: the last line read and what read_file did with it
    merged                     \* history: the record_metrics_line calls that completed

vars == <<args, pc, error, milliseconds_aggregation, sort_fields, unit_divisor,
          compiled_regex, regex_func, file_index, file_date, lines_read, metrics,
          key_order, sorted_metrics, output, last, merged>>

\* Python's None, and a value that is not None, for a name that may hold either
None == <<>>

Some(x) == <<x>>

-----------------------------------------------------------------------------
(* Characters and Python's string primitives.                              *)

\* The characters the model's strings use, in ASCII order.
AsciiChars ==
    <<"\n", " ", "(", "+", "-", ".",
      "0", "1", "2", "3", "4", "5", "6", "7", "8", "9", ":", "=",
      "A", "B", "D", "F", "H", "M", "O", "X",
      "a", "b", "c", "d", "e", "f", "h", "m", "n", "o", "r", "s", "t", "u", "x">>

Ord(c) == CHOOSE i \in 1..Len(AsciiChars) : AsciiChars[i] = c

DigitChars == <<"0", "1", "2", "3", "4", "5", "6", "7", "8", "9">>

IsDigit(c) == \E i \in 1..10 : DigitChars[i] = c

DigitVal(c) == (CHOOSE i \in 1..10 : DigitChars[i] = c) - 1

LowerChars == <<"a", "b", "d", "f", "h", "m", "o", "x">>

UpperChars == <<"A", "B", "D", "F", "H", "M", "O", "X">>

\* str.upper() and str.lower(), per character
UpperChar(c) ==
    IF \E i \in 1..Len(LowerChars) : LowerChars[i] = c
    THEN UpperChars[CHOOSE i \in 1..Len(LowerChars) : LowerChars[i] = c]
    ELSE c

LowerChar(c) ==
    IF \E i \in 1..Len(UpperChars) : UpperChars[i] = c
    THEN LowerChars[CHOOSE i \in 1..Len(UpperChars) : UpperChars[i] = c]
    ELSE c

Upper(s) == [i \in 1..Len(s) |-> UpperChar(s[i])]

Lower(s) == [i \in 1..Len(s) |-> LowerChar(s[i])]

\* s[from:] with 0 <= from (Python's 0-based slice, empty when from >= len(s))
SliceFrom(s, from) == SubSeq(s, from + 1, Len(s))

\* s.startswith(prefix)
StartsWith(s, prefix) ==
    /\ Len(s) >= Len(prefix)
    /\ SubSeq(s, 1, Len(prefix)) = prefix

\* s1 < s2 as Python compares str: by code point, a proper prefix first
RECURSIVE StrLess(_, _)
StrLess(s1, s2) ==
    IF s2 = <<>> THEN FALSE
    ELSE IF s1 = <<>> THEN TRUE
    ELSE IF s1[1] # s2[1] THEN Ord(s1[1]) < Ord(s2[1])
    ELSE StrLess(Tail(s1), Tail(s2))

IsSpace(c) == c \in {" ", "\n"}

\* s.strip()
RECURSIVE LStrip(_)
LStrip(s) == IF s # <<>> /\ IsSpace(s[1]) THEN LStrip(Tail(s)) ELSE s

RECURSIVE RStrip(_)
RStrip(s) ==
    IF s # <<>> /\ IsSpace(s[Len(s)]) THEN RStrip(SubSeq(s, 1, Len(s) - 1)) ELSE s

Strip(s) == LStrip(RStrip(s))

RECURSIVE DigitsValue(_)
DigitsValue(s) ==
    IF s = <<>> THEN 0
    ELSE 10 * DigitsValue(SubSeq(s, 1, Len(s) - 1)) + DigitVal(s[Len(s)])

AllDigits(s) == s # <<>> /\ \A i \in 1..Len(s) : IsDigit(s[i])

\* int(s): surrounding whitespace stripped, an optional sign, then digits.
\* ok = FALSE stands for the ValueError int() raises.
PyInt(s) ==
    LET t == Strip(s)
        signed == t # <<>> /\ t[1] \in {"+", "-"}
        body == IF signed THEN Tail(t) ELSE t
    IN  IF AllDigits(body)
        THEN [ok |-> TRUE,
              val |-> IF signed /\ t[1] = "-" THEN 0 - DigitsValue(body)
                      ELSE DigitsValue(body)]
        ELSE [ok |-> FALSE, val |-> 0]

\* str(n) of an int
RECURSIVE NatStr(_)
NatStr(n) ==
    IF n < 10 THEN <<DigitChars[n + 1]>>
    ELSE NatStr(n \div 10) \o <<DigitChars[(n % 10) + 1]>>

Str(n) == IF n < 0 THEN <<"-">> \o NatStr(0 - n) ELSE NatStr(n)

\* a // b of Python ints, b # 0: the floor of the quotient, whatever the signs
PyFloorDiv(a, b) == IF b > 0 THEN a \div b ELSE (0 - a) \div (0 - b)

-----------------------------------------------------------------------------
(* The datetime library, as the program uses it.                           *)

MILLISECONDS_TO_MINUTE == 60 * 1000

MILLISECONDS_TO_HOUR == 60 * 60 * 1000

MILLISECONDS_TO_DAY == 24 * 60 * 60 * 1000

IsLeap(y) == (y % 4 = 0 /\ y % 100 # 0) \/ y % 400 = 0

DaysInMonth(y, m) ==
    IF m = 2 THEN (IF IsLeap(y) THEN 29 ELSE 28)
    ELSE IF m \in {4, 6, 9, 11} THEN 30 ELSE 31

\* date(y, m, d) as a number of days since 1970-01-01 (proleptic Gregorian)
DaysFromCivil(y, m, d) ==
    LET yy == IF m <= 2 THEN y - 1 ELSE y
        era == yy \div 400
        yoe == yy - era * 400
        mp == IF m > 2 THEN m - 3 ELSE m + 9
        doy == ((153 * mp + 2) \div 5) + d - 1
        doe == yoe * 365 + (yoe \div 4) - (yoe \div 100) + doy
    IN  era * 146097 + doe - 719468

\* the [y, m, d] of a number of days since 1970-01-01
CivilFromDays(z) ==
    LET zz == z + 719468
        era == zz \div 146097
        doe == zz - era * 146097
        yoe == (doe - (doe \div 1460) + (doe \div 36524) - (doe \div 146096)) \div 365
        doy == doe - (365 * yoe + (yoe \div 4) - (yoe \div 100))
        mp == (5 * doy + 2) \div 153
        d == doy - ((153 * mp + 2) \div 5) + 1
        m == IF mp < 10 THEN mp + 3 ELSE mp - 9
        y == yoe + era * 400
    IN  [y |-> IF m <= 2 THEN y + 1 ELSE y, m |-> m, d |-> d]

\* n printed with at least `width` digits, zero-padded (%02d, %04d), n >= 0
RECURSIVE ZeroPad(_, _)
ZeroPad(s, width) == IF Len(s) >= width THEN s ELSE ZeroPad(<<"0">> \o s, width)

\* datetime.datetime.strptime(s, '%Y%m%d').date() of a string of eight
\* characters or fewer; ok = FALSE stands for its ValueError
StrptimeYmd(s) ==
    IF Len(s) = 8 /\ AllDigits(s)
    THEN LET y == DigitsValue(SubSeq(s, 1, 4))
             m == DigitsValue(SubSeq(s, 5, 6))
             d == DigitsValue(SubSeq(s, 7, 8))
         IN  IF y >= 1 /\ m \in 1..12 /\ d >= 1 /\ d <= DaysInMonth(y, m)
             THEN [ok |-> TRUE, val |-> DaysFromCivil(y, m, d)]
             ELSE [ok |-> FALSE, val |-> 0]
    ELSE [ok |-> FALSE, val |-> 0]

\* the positions of character c in s
Positions(s, c) == {i \in 1..Len(s) : s[i] = c}

\* datetime.datetime.strptime(s, '%H:%M:%S').time() as the second of the day;
\* ok = FALSE stands for its ValueError
StrptimeHMS(s) ==
    LET colons == Positions(s, ":")
    IN  IF Cardinality(colons) # 2 THEN [ok |-> FALSE, val |-> 0]
        ELSE LET c1 == CHOOSE i \in colons : \A j \in colons : i <= j
                 c2 == CHOOSE i \in colons : \A j \in colons : i >= j
                 hh == SubSeq(s, 1, c1 - 1)
                 mm == SubSeq(s, c1 + 1, c2 - 1)
                 ss == SubSeq(s, c2 + 1, Len(s))
                 shaped == \A p \in {hh, mm, ss} : AllDigits(p) /\ Len(p) <= 2
             IN  IF shaped /\ DigitsValue(hh) <= 23 /\ DigitsValue(mm) <= 59
                           /\ DigitsValue(ss) <= 59
                 THEN [ok |-> TRUE,
                       val |-> DigitsValue(hh) * 3600 + DigitsValue(mm) * 60
                               + DigitsValue(ss)]
                 ELSE [ok |-> FALSE, val |-> 0]

\* datetime.fromtimestamp(ms / 1000).strftime('%Y-%m-%d')
StrftimeDate(ms) ==
    LET c == CivilFromDays(ms \div MILLISECONDS_TO_DAY)
    IN  ZeroPad(NatStr(c.y), 4) \o <<"-">> \o ZeroPad(NatStr(c.m), 2)
            \o <<"-">> \o ZeroPad(NatStr(c.d), 2)

\* datetime.fromtimestamp(ms / 1000).strftime('%H:%M')
StrftimeTime(ms) ==
    LET secs == (ms \div 1000) % 86400
    IN  ZeroPad(NatStr(secs \div 3600), 2) \o <<":">>
            \o ZeroPad(NatStr((secs % 3600) \div 60), 2)

-----------------------------------------------------------------------------
(* The re library, for the patterns the model supplies: an optional        *)
(* leading ^ and then literal characters; an unbalanced ( does not compile.*)

\* whether re.compile(pattern, re.I) returns (FALSE: it raises re.error)
ReCompiles(pattern) == \A i \in 1..Len(pattern) : pattern[i] # "("

\* compiled_regex.search(s) is not None, under re.I
ReSearch(pattern, s) ==
    LET anchored == pattern # <<>> /\ pattern[1] = "^"
        lit == Lower(IF anchored THEN Tail(pattern) ELSE pattern)
        ls == Lower(s)
    IN  IF anchored THEN StartsWith(ls, lit)
        ELSE \E i \in 0..Len(ls) : StartsWith(SliceFrom(ls, i), lit)

-----------------------------------------------------------------------------
(* The program's constants and pure functions.                             *)

TIMING_RECORD == <<"t", "m">>

MICROSECONDS_TO_MILLISECONDS == 1000

MICROSECONDS_TO_SECONDS == 1000 * 1000

metrics_field_names ==
    <<"date", "time", "name", "count", "avg", "max", "sum", "errcount">>

name_field_width == 70

s_count == <<"c", "o", "u", "n", "t">>

s_max == <<"m", "a", "x">>

s_sum == <<"s", "u", "m">>

s_err_count == <<"e", "r", "r", ".", "c", "o", "u", "n", "t">>

\* field_value: the first field that starts with field_name decides; its text
\* from position len(field_name) + 1 on goes through int().  ok = FALSE stands
\* for the ValueError of int(); no such field gives 0.
RECURSIVE field_value(_, _)
field_value(field_name, fields) ==
    IF fields = <<>> THEN [ok |-> TRUE, val |-> 0]
    ELSE IF StartsWith(fields[1], field_name)
         THEN PyInt(SliceFrom(fields[1], Len(field_name) + 1))
         ELSE field_value(field_name, Tail(fields))

\* a variant of MetricsKey that leaves the separator out
MetricsKey_NoSeparator(ms, name) == Str(ms) \o name

\* line 61: key = str(ms) + '-' + name
MetricsKey(ms, name) == Str(ms) \o <<"-">> \o name

\* a variant of Accumulate that keeps the larger value instead of adding
Accumulate_RunningMaximum(value, observed) ==
    IF observed > value THEN observed ELSE value

\* a variant of Accumulate that assigns instead of adding
Accumulate_Overwrite(value, observed) == observed

\* lines 73-76: value += field_value(...)
Accumulate(value, observed) == value + observed

\* a variant of Average that guards against a count of 0 only
Average_GuardsZeroOnly(sum_value, count_value) ==
    IF count_value # 0 THEN PyFloorDiv(sum_value, count_value) ELSE 0

\* line 80: avg_value = sum_value // count_value if count_value > 0 else 0
Average(sum_value, count_value) ==
    IF count_value > 0 THEN PyFloorDiv(sum_value, count_value) ELSE 0

\* record_metrics_line applied to the dict (m, order): the dict afterwards, or
\* ok = FALSE when a field_value call raised and the dict was left as it was
record_metrics_line(m, order, ms, name, metrics_fields) ==
    LET key == MetricsKey(ms, name)
        present == key \in DOMAIN m
        fc == field_value(s_count, metrics_fields)
        fm == field_value(s_max, metrics_fields)
        fs == field_value(s_sum, metrics_fields)
        fe == field_value(s_err_count, metrics_fields)
        count_value == Accumulate(IF present THEN m[key].count ELSE 0, fc.val)
        max_value == Accumulate(IF present THEN m[key].max ELSE 0, fm.val)
        sum_value == Accumulate(IF present THEN m[key].sum ELSE 0, fs.val)
        err_count_value == Accumulate(IF present THEN m[key].errcount ELSE 0, fe.val)
        mt == [date |-> StrftimeDate(ms), time |-> StrftimeTime(ms), name |-> name,
               count |-> count_value, avg |-> Average(sum_value, count_value),
               max |-> max_value, sum |-> sum_value, errcount |-> err_count_value]
    IN  IF fc.ok /\ fm.ok /\ fs.ok /\ fe.ok
        THEN [ok |-> TRUE,
              metrics |-> [k \in DOMAIN m \cup {key} |-> IF k = key THEN mt ELSE m[k]],
              order |-> IF present THEN order ELSE Append(order, key)]
        ELSE [ok |-> FALSE, metrics |-> m, order |-> order]

\* s[start:stop] with stop >= 0 and any start, as Python clips a slice
PySlice(s, start, stop) ==
    LET n == Len(s)
        b == IF start < 0 THEN (IF n + start < 0 THEN 0 ELSE n + start)
             ELSE (IF start > n THEN n ELSE start)
        e == IF stop > n THEN n ELSE stop
    IN  SubSeq(s, b + 1, e)

\* parse_filename_date: the day the file name refers to (days since
\* 1970-01-01); ok = FALSE stands for the ValueError of rindex or strptime
parse_filename_date(filename) ==
    LET dots == Positions(filename, ".")
    IN  IF dots = {} THEN [ok |-> FALSE, val |-> 0]
        ELSE LET extension_index == (CHOOSE i \in dots : \A j \in dots : i >= j) - 1
                 iso_date == PySlice(filename, extension_index - 8, extension_index)
             IN  StrptimeYmd(iso_date)

\* lines 162-163: int(datetime.combine(d, t).timestamp() * 1000), d in days
\* since 1970-01-01 and t the second of the day
InstantMs(d, t) == (d * 86400 + t) * 1000

\* a variant of calculate_aggregation_period_start_ms that rounds to the
\* nearest window start instead of down
calculate_aggregation_period_start_ms_Nearest(d, t, aggregation_ms) ==
    LET ms == (d * 86400 + t) * 1000
    IN  IF aggregation_ms = None THEN [ok |-> TRUE, val |-> ms]
        ELSE IF aggregation_ms[1] = 0 THEN [ok |-> FALSE, val |-> 0]
        ELSE [ok |-> TRUE,
              val |-> PyFloorDiv(2 * ms + aggregation_ms[1], 2 * aggregation_ms[1])
                          * aggregation_ms[1]]

\* calculate_aggregation_period_start_ms with the closure's aggregation_ms;
\* ok = FALSE stands for the ZeroDivisionError of ms // 0
calculate_aggregation_period_start_ms(d, t, aggregation_ms) ==
    LET ms == InstantMs(d, t)
    IN  IF aggregation_ms = None THEN [ok |-> TRUE, val |-> ms]
        ELSE IF aggregation_ms[1] = 0 THEN [ok |-> FALSE, val |-> 0]
        ELSE [ok |-> TRUE,
              val |-> PyFloorDiv(ms, aggregation_ms[1]) * aggregation_ms[1]]

\* filter_by_regex with the closure's compiled_regex
filter_by_regex(regex, s) == ReSearch(regex[1], s)

\* line 128: (regex_func is None) or (regex_func(name) == True)
PassesFilter(func, regex, name) == func = None \/ filter_by_regex(regex, name)


\* the body of read_file's loop for one line (lines 118-129) on the dict
\* (m, order): what it raised, if anything, and the dict afterwards
read_line(line, d, aggregation_ms, func, regex, m, order) ==
    LET unchanged == [metrics |-> m, order |-> order]
        raised(e, t, b) ==
            [outcome |-> "raised", error |-> e, instant |-> t, ms |-> b] @@ unchanged
    IN  IF Len(line) < 3 THEN raised("IndexError", None, None)
        ELSE
        LET line_time == StrptimeHMS(line[1])
            type == line[2]
            name == line[3]
            summary_fields == SubSeq(line, 4, Len(line))
        IN  IF ~line_time.ok THEN raised("ValueError", None, None)
            ELSE
            LET t == Some(InstantMs(d, line_time.val))
                ms == calculate_aggregation_period_start_ms(d, line_time.val,
                                                            aggregation_ms)
            IN  IF ~ms.ok THEN raised("ZeroDivisionError", t, None)
                ELSE IF type = TIMING_RECORD /\ PassesFilter(func, regex, name)
                THEN LET r == record_metrics_line(m, order, ms.val, name,
                                                  summary_fields)
                     IN  IF r.ok
                         THEN [outcome |-> "recorded", error |-> "", instant |-> t,
                               ms |-> Some(ms.val), metrics |-> r.metrics,
                               order |-> r.order]
                         ELSE raised("ValueError", t, Some(ms.val))
                ELSE [outcome |-> "skipped", error |-> "", instant |-> t,
                      ms |-> Some(ms.val)] @@ unchanged

\* mt.f < other.f for one attribute f of two MetricsTuples
FieldLess(f, a, b) ==
    IF f \in {"date", "time", "name"} THEN StrLess(a[f], b[f]) ELSE a[f] < b[f]

\* attrgetter(*fields)(a) < attrgetter(*fields)(b): tuples compare by their
\* first differing item
RECURSIVE KeyLess(_, _, _)
KeyLess(fields, a, b) ==
    IF fields = <<>> THEN FALSE
    ELSE IF a[fields[1]] # b[fields[1]] THEN FieldLess(fields[1], a, b)
    ELSE KeyLess(Tail(fields), a, b)

\* x put into the sorted list after every item that is not greater than it
RECURSIVE InsertSorted(_, _, _)
InsertSorted(fields, list, x) ==
    IF list = <<>> THEN <<x>>
    ELSE IF KeyLess(fields, x, list[1]) THEN <<x>> \o list
    ELSE <<list[1]>> \o InsertSorted(fields, Tail(list), x)

\* sorted(values, key=attrgetter(*fields)): ascending and stable
RECURSIVE Sorted(_, _)
Sorted(fields, values) ==
    IF values = <<>> THEN <<>>
    ELSE InsertSorted(fields, Sorted(fields, SubSeq(values, 1, Len(values) - 1)),
                      values[Len(values)])

\* '{:Nd}'.format(n): str(n) right-aligned in at least `width` characters
RECURSIVE PadLeft(_, _)
PadLeft(s, width) == IF Len(s) >= width THEN s ELSE PadLeft(<<" ">> \o s, width)

FormatD(n, width) == PadLeft(Str(n), width)

\* '{:70s}'.format(s): s left-aligned in at least `width` characters
FormatS(s, width) ==
    [i \in 1..(IF Len(s) >= width THEN Len(s) ELSE width) |->
        IF i <= Len(s) THEN s[i] ELSE " "]

\* line 139
AbbreviatedName(name) ==
    IF Len(name) < name_field_width THEN name
    ELSE <<".", ".", ".">> \o PySlice(name, 3 - name_field_width, Len(name))

\* a variant of FormatRow that divides count and errcount too
FormatRow_DividesCounts(mt, divisor) ==
    [date |-> mt.date, time |-> mt.time,
     name |-> FormatS(AbbreviatedName(mt.name), 70),
     count |-> FormatD(PyFloorDiv(mt.count, divisor), 4),
     sum |-> FormatD(PyFloorDiv(mt.sum, divisor), 7),
     max |-> FormatD(PyFloorDiv(mt.max, divisor), 7),
     avg |-> FormatD(PyFloorDiv(mt.avg, divisor), 7),
     errcount |-> FormatD(PyFloorDiv(mt.errcount, divisor), 3)]

\* the fields of the row print_metrics prints for one MetricsTuple (lines 141-146)
FormatRow(mt, divisor) ==
    [date |-> mt.date, time |-> mt.time,
     name |-> FormatS(AbbreviatedName(mt.name), 70),
     count |-> FormatD(mt.count, 4),
     sum |-> FormatD(PyFloorDiv(mt.sum, divisor), 7),
     max |-> FormatD(PyFloorDiv(mt.max, divisor), 7),
     avg |-> FormatD(PyFloorDiv(mt.avg, divisor), 7),
     errcount |-> FormatD(mt.errcount, 3)]

\* lines 226-241: the --aggregate value, a quantity and a unit letter
ParseAggregate(aggregate) ==
    IF aggregate = None THEN [outcome |-> "ok", val |-> None]
    ELSE
    LET text == aggregate[1]
        quantity == PyInt(SubSeq(text, 1, Len(text) - 1))
        units_specifier == Upper(SubSeq(text, Len(text), Len(text)))
    IN  IF ~quantity.ok THEN [outcome |-> "ValueError", val |-> None]
        ELSE IF units_specifier = <<"M">>
        THEN [outcome |-> "ok", val |-> Some(quantity.val * MILLISECONDS_TO_MINUTE)]
        ELSE IF units_specifier = <<"H">>
        THEN [outcome |-> "ok", val |-> Some(quantity.val * MILLISECONDS_TO_HOUR)]
        ELSE IF units_specifier = <<"D">>
        THEN [outcome |-> "ok", val |-> Some(quantity.val * MILLISECONDS_TO_DAY)]
        ELSE [outcome |-> "exit", val |-> None]

IsFieldName(f) == \E i \in 1..Len(metrics_field_names) : metrics_field_names[i] = f

\* lines 245-251: the stripped items of args.sort.split(","), each appended
\* to sort_fields before it is checked
RECURSIVE ParseSort(_, _)
ParseSort(items, acc) ==
    IF items = <<>> THEN [outcome |-> "ok", val |-> acc]
    ELSE IF ~IsFieldName(items[1])
    THEN [outcome |-> "exit", val |-> Append(acc, items[1])]
    ELSE ParseSort(Tail(items), Append(acc, items[1]))

\* lines 253-257
UnitDivisor(units) ==
    IF units = "ms" THEN MICROSECONDS_TO_MILLISECONDS
    ELSE IF units = "sec" THEN MICROSECONDS_TO_SECONDS
    ELSE 1

-----------------------------------------------------------------------------
(* The run: the module-level script, then process_files.                   *)

NoLine == [line |-> <<>>, outcome |-> "none", instant |-> None, ms |-> None]

InitWith(ArgsSet) ==
    /\ args \in ArgsSet
    /\ pc = "args"
    /\ error = ""
    /\ milliseconds_aggregation = None
    /\ sort_fields = <<>>
    /\ unit_divisor = 1
    /\ compiled_regex = None
    /\ regex_func = None
    /\ file_index = 0
    /\ file_date = 0
    /\ lines_read = 0
    /\ metrics = [k \in {} |-> None]
    /\ key_order = <<>>
    /\ sorted_metrics = <<>>
    /\ output = <<>>
    /\ last = NoLine
    /\ merged = <<>>

\* lines 226-257: --aggregate, then --sort, then --units; argument_parser.exit
\* ends the run, and so does the ValueError of int()
ParseArgs ==
    /\ pc = "args"
    /\ LET a == ParseAggregate(args.aggregate)
           s == ParseSort(args.sort, <<>>)
       IN  /\ milliseconds_aggregation' = a.val
           /\ sort_fields' = IF a.outcome = "ok" THEN s.val ELSE sort_fields
           /\ unit_divisor' = IF a.outcome = "ok" /\ s.outcome = "ok"
                              THEN UnitDivisor(args.units) ELSE unit_divisor
           /\ error' = IF a.outcome # "ok" THEN a.outcome
                       ELSE IF s.outcome # "ok" THEN s.outcome ELSE ""
           /\ pc' = IF a.outcome = "ok" /\ s.outcome = "ok" THEN "process"
                    ELSE "stopped"
    /\ UNCHANGED <<args, compiled_regex, regex_func, file_index, file_date,
                   lines_read, metrics, key_order, sorted_metrics, output, last,
                   merged>>

\* lines 171-185: process_files up to its loop over the files
StartProcessFiles ==
    /\ pc = "process"
    /\ IF args.grep = None
       THEN /\ pc' = "files"
            /\ UNCHANGED <<compiled_regex, regex_func, error>>
       ELSE IF ReCompiles(args.grep[1])
       THEN /\ compiled_regex' = args.grep
            /\ regex_func' = Some("filter_by_regex")
            /\ pc' = "files"
            /\ UNCHANGED error
       ELSE /\ error' = "re.error"
            /\ pc' = "stopped"
            /\ UNCHANGED <<compiled_regex, regex_func>>
    /\ file_index' = IF args.grep = None \/ ReCompiles(args.grep[1]) THEN 1
                     ELSE file_index
    /\ UNCHANGED <<args, milliseconds_aggregation, sort_fields, unit_divisor,
                   file_date, lines_read, metrics, key_order, sorted_metrics,
                   output, last, merged>>

\* a variant of AllFilesRead that holds as soon as the first file is read
AllFilesRead_AfterFirstFile == file_index > 1

\* line 188: the loop over the files has run out of files
AllFilesRead == file_index > Len(args.files)

\* lines 188-189 and 114-116: the next file; its name gives the date
OpenFile ==
    /\ pc = "files"
    /\ ~AllFilesRead
    /\ LET d == parse_filename_date(args.files[file_index])
       IN  IF d.ok
           THEN /\ file_date' = d.val
                /\ pc' = "lines"
                /\ UNCHANGED error
           ELSE /\ error' = "ValueError"
                /\ pc' = "stopped"
                /\ UNCHANGED file_date
    /\ UNCHANGED <<args, milliseconds_aggregation, sort_fields, unit_divisor,
                   compiled_regex, regex_func, file_index, lines_read, metrics,
                   key_order, sorted_metrics, output, last, merged>>

\* lines 117-129: the file yields one more line
ReadLine(line, limit) ==
    /\ pc = "lines"
    /\ lines_read < limit
    /\ LET r == read_line(line, file_date, milliseconds_aggregation, regex_func,
                          compiled_regex, metrics, key_order)
       IN  /\ metrics' = r.metrics
           /\ key_order' = r.order
           /\ error' = r.error
           /\ pc' = IF r.outcome = "raised" THEN "stopped" ELSE "lines"
           /\ last' = [line |-> line, outcome |-> r.outcome, instant |-> r.instant,
                       ms |-> r.ms]
           /\ merged' = IF r.outcome = "recorded"
                        THEN Append(merged, [instant |-> r.instant[1], ms |-> r.ms[1],
                                             name |-> line[3],
                                             fields |-> SubSeq(line, 4, Len(line))])
                        ELSE merged
    /\ lines_read' = lines_read + 1
    /\ UNCHANGED <<args, milliseconds_aggregation, sort_fields, unit_divisor,
                   compiled_regex, regex_func, file_index, file_date,
                   sorted_metrics, output>>

\* line 117: the file has no more lines; read_file returns
EndOfFile ==
    /\ pc = "lines"
    /\ file_index' = file_index + 1
    /\ pc' = "files"
    /\ UNCHANGED <<args, error, milliseconds_aggregation, sort_fields, unit_divisor,
                   compiled_regex, regex_func, file_date, lines_read, metrics,
                   key_order, sorted_metrics, output, last, merged>>

\* metrics.values(): the tuples in the order their keys were inserted
MetricsValues == [i \in 1..Len(key_order) |-> metrics[key_order[i]]]

\* line 192
SortMetrics ==
    /\ pc = "files"
    /\ AllFilesRead
    /\ sorted_metrics' = Sorted(sort_fields, MetricsValues)
    /\ pc' = "print"
    /\ UNCHANGED <<args, error, milliseconds_aggregation, sort_fields, unit_divisor,
                   compiled_regex, regex_func, file_index, file_date, lines_read,
                   metrics, key_order, output, last, merged>>

\* lines 138-146: print_metrics prints the next row
PrintRow ==
    /\ pc = "print"
    /\ Len(output) < Len(sorted_metrics)
    /\ output' = Append(output, FormatRow(sorted_metrics[Len(output) + 1],
                                          unit_divisor))
    /\ UNCHANGED <<args, pc, error, milliseconds_aggregation, sort_fields,
                   unit_divisor, compiled_regex, regex_func, file_index, file_date,
                   lines_read, metrics, key_order, sorted_metrics, last, merged>>

\* print_metrics and process_files return; the script ends
Finish ==
    /\ pc = "print"
    /\ Len(output) = Len(sorted_metrics)
    /\ pc' = "done"
    /\ UNCHANGED <<args, error, milliseconds_aggregation, sort_fields, unit_divisor,
                   compiled_regex, regex_func, file_index, file_date, lines_read,
                   metrics, key_order, sorted_metrics, output, last, merged>>

Step(LineSet, limit) ==
    \/ ParseArgs
    \/ StartProcessFiles
    \/ OpenFile
    \/ \E line \in LineSet : ReadLine(line, limit)
    \/ EndOfFile
    \/ SortMetrics
    \/ PrintRow
    \/ Finish

-----------------------------------------------------------------------------
(* Inputs: command lines and the lines of the files.                       *)

\* 'name=value', as a metrics file writes a field
Field(name, value) == name \o <<"=">> \o Str(value)

\* 'HH:MM:SS'
TimeOfDay(h, m, sec) ==
    ZeroPad(NatStr(h), 2) \o <<":">> \o ZeroPad(NatStr(m), 2) \o <<":">>
        \o ZeroPad(NatStr(sec), 2)

\* '<prefix>-<YYYYMMDD>.txt'
FileName(iso_date) == <<"a", "-">> \o iso_date \o <<".", "t", "x", "t">>

File19700101 == FileName(<<"1", "9", "7", "0", "0", "1", "0", "1">>)

File19700102 == FileName(<<"1", "9", "7", "0", "0", "1", "0", "2">>)

File19691231 == FileName(<<"1", "9", "6", "9", "1", "2", "3", "1">>)

\* no date before the extension
FileUndated == <<"a", ".", "t", "x", "t">>

DefaultSort == <<"date", "time", "name">>

CounterType == <<"c", "t", "r">>

s_counter == <<"c", "o", "u", "n", "t", "e", "r">>

s_dur == <<"d", "u", "r">>

\* the command lines of Spec: valid and invalid values of every option
AllArgs ==
    [aggregate : {None, Some(<<"1", "m">>), Some(<<"0", "m">>),
                  Some(<<"-", "1", "m">>), Some(<<"1", "x">>), Some(<<"m">>)},
     sort : {DefaultSort, <<"count">>, <<"name", "bogus">>},
     units : {"ns", "us", "ms", "sec"},
     grep : {None, Some(<<"^", "a">>), Some(<<"(">>)},
     files : {<<File19700101>>, <<File19700101, File19700102>>,
              <<File19700101, FileUndated>>}]

\* the lines of Spec: timing records, another record type, a name the filter
\* rejects, a field whose name extends a recognised one, and malformed lines
Lines ==
    {<<TimeOfDay(0, 0, 5), TIMING_RECORD, <<"a">>,
       Field(s_count, 2), Field(s_max, 5), Field(s_sum, 10), Field(s_err_count, 1)>>,
     <<TimeOfDay(0, 1, 10), TIMING_RECORD, <<"A", "b">>,
       Field(s_count, 1), Field(s_sum, 4)>>,
     <<TimeOfDay(0, 0, 30), TIMING_RECORD, <<"b">>, Field(s_count, 1)>>,
     <<TimeOfDay(0, 0, 30), CounterType, <<"a">>, Field(s_count, 9),
       <<"x">>>>,
     <<TimeOfDay(0, 0, 40), TIMING_RECORD, <<"a">>,
       Field(s_counter, 5), Field(s_count, 2)>>,
     <<TimeOfDay(0, 0, 50), TIMING_RECORD, <<"a">>, s_count \o <<"=", "x">>>>,
     <<<<"x", "x", ":", "0", "0", ":", "0", "0">>, TIMING_RECORD, <<"a">>,
       Field(s_count, 1)>>,
     <<<<"\n">>>>}

\* the number of lines a run of Spec reads, all files together
MaxLines == 3

Init == InitWith(AllArgs)

Next == Step(Lines, MaxLines)

Spec == Init /\ [][Next]_vars

-----------------------------------------------------------------------------
(* What the file format says a record is, for stating the properties.      *)

FirstEquals(f) == CHOOSE i \in Positions(f, "=") : \A j \in Positions(f, "=") : i <= j

\* the field is name=value with an integer value
IsNameValue(f) ==
    /\ Positions(f, "=") # {}
    /\ FirstEquals(f) > 1
    /\ PyInt(SubSeq(f, FirstEquals(f) + 1, Len(f))).ok

NameOf(f) == SubSeq(f, 1, FirstEquals(f) - 1)

ValueOf(f) == PyInt(SubSeq(f, FirstEquals(f) + 1, Len(f))).val

\* the value of the first field named exactly `name`, 0 when there is none
RECURSIVE NamedValue(_, _)
NamedValue(name, fields) ==
    IF fields = <<>> THEN 0
    ELSE IF NameOf(fields[1]) = name THEN ValueOf(fields[1])
    ELSE NamedValue(name, Tail(fields))

AllNameValue(fields) == \A i \in 1..Len(fields) : IsNameValue(fields[i])

\* the line has a time of day, a type tag and a name
HasHeader(line) == Len(line) >= 3 /\ StrptimeHMS(line[1]).ok

\* the line is a timing record that the --grep filter, if any, lets through
Qualifies(line) ==
    /\ line[2] = TIMING_RECORD
    /\ (args.grep = None \/ ReSearch(args.grep[1], line[3]))

\* this step is read_file taking one more line
ReadsLine == lines_read' = lines_read + 1

-----------------------------------------------------------------------------
(* Properties of the run.                                                  *)

\* C4 (as claimed): a record with a time, a type and a name (and, when it is a
\* timing record the filter lets through, name=value fields) is folded into the
\* accumulator iff its type is 'tm' and the filter lets its name through; any
\* other such record leaves the accumulator unchanged and raises nothing.
C4_FoldedIffTimingAndMatch ==
    [][(ReadsLine /\ HasHeader(last'.line)
            /\ (Qualifies(last'.line) => AllNameValue(SubSeq(last'.line, 4,
                                                             Len(last'.line)))))
        => /\ (merged' # merged) <=> Qualifies(last'.line)
           /\ ~Qualifies(last'.line) => (metrics' = metrics /\ error' = "")]_vars

\* C5 (as claimed): when a timing record with name=value fields reaches
\* record_metrics_line, it is merged, and the values added to the stored
\* count, max, sum and errcount are those of the fields named count, max, sum
\* and err.count (0 for an absent one), whatever other fields the record has.
C5_ExactlyNamedFieldsMerged ==
    [][(ReadsLine /\ HasHeader(last'.line) /\ Qualifies(last'.line)
            /\ last'.ms # None
            /\ AllNameValue(SubSeq(last'.line, 4, Len(last'.line))))
        => LET fields == SubSeq(last'.line, 4, Len(last'.line))
               key == MetricsKey(last'.ms[1], last'.line[3])
               old(f) == IF key \in DOMAIN metrics THEN metrics[key][f] ELSE 0
           IN  /\ error' = ""
               /\ key \in DOMAIN metrics'
               /\ metrics'[key].count = old("count") + NamedValue(s_count, fields)
               /\ metrics'[key].max = old("max") + NamedValue(s_max, fields)
               /\ metrics'[key].sum = old("sum") + NamedValue(s_sum, fields)
               /\ metrics'[key].errcount
                      = old("errcount") + NamedValue(s_err_count, fields)]_vars

\* C6 (as claimed): with an aggregation window width of 0 or less the run stops
\* with a configuration error before any file is read, and the bucket
\* computation never divides by zero.
C6_NonPositiveWidthRejected ==
    /\ (milliseconds_aggregation # None /\ milliseconds_aggregation[1] <= 0)
           => (pc = "stopped" /\ error = "exit" /\ file_index = 0 /\ lines_read = 0)
    /\ error # "ZeroDivisionError"

\* C10: no row is printed before every file has been read to its end, a run
\* that stops on an error prints nothing, the rows printed are those of the
\* one sort of the final accumulator, and the accumulator does not change
\* once the sort has been done.
C10_OutputOnlyAfterAllInput ==
    /\ [](output # <<>> => /\ file_index > Len(args.files)
                           /\ pc \in {"print", "done"}
                           /\ error = "")
    /\ [](pc = "stopped" => output = <<>>)
    /\ [](pc \in {"print", "done"}
             => /\ sorted_metrics = Sorted(sort_fields, MetricsValues)
                /\ \A i \in 1..Len(output) :
                       output[i] = FormatRow(sorted_metrics[i], unit_divisor))
    /\ [][(pc \in {"print", "done"})
              => UNCHANGED <<metrics, sorted_metrics, merged>>]_vars

\* two files read, three records merged, and every row printed
C10_Witness ==
    /\ pc = "done"
    /\ Len(args.files) = 2
    /\ Len(merged) = 3
    /\ Len(output) >= 2

-----------------------------------------------------------------------------
(* SpecMerge: runs that merge records of varied values, negative ones      *)
(* included, into a few keys under a one-minute window.                    *)

MergeArgs ==
    [aggregate : {Some(<<"1", "m">>)},
     sort : {DefaultSort},
     units : {"ns"},
     grep : {None},
     files : {<<File19700101>>}]

MergeFields ==
    {<<Field(s_count, 2), Field(s_max, 5), Field(s_sum, 10), Field(s_err_count, 1)>>,
     <<Field(s_dur, 7), Field(s_sum, -7), Field(s_max, 3), Field(s_count, 3)>>,
     <<Field(s_sum, 4), Field(s_count, -2), Field(s_max, -1),
       Field(s_err_count, -1)>>,
     <<Field(s_count, 1), Field(s_max, 9), Field(s_sum, 1), Field(s_err_count, 2)>>}

MergeLines ==
    {<<TimeOfDay(0, 0, 5), TIMING_RECORD, <<"a">>>> \o f : f \in MergeFields}
    \cup {<<TimeOfDay(0, 0, 45), TIMING_RECORD, <<"a">>>> \o f : f \in MergeFields}
    \cup {<<TimeOfDay(0, 1, 10), TIMING_RECORD, <<"a">>>> \o f : f \in MergeFields}

\* the number of lines a run of SpecMerge reads
MaxMergeLines == 3

InitMerge == InitWith(MergeArgs)

NextMerge == Step(MergeLines, MaxMergeLines)

SpecMerge == InitMerge /\ [][NextMerge]_vars

Range(seq) == {seq[i] : i \in 1..Len(seq)}

\* the merged observations of one (bucket timestamp, name) pair, in merge order
ObservationsOf(ms, name) == SelectSeq(merged, LAMBDA o : o.ms = ms /\ o.name = name)

\* the arithmetic sum of one named field over a sequence of observations
RECURSIVE SumOfField(_, _)
SumOfField(name, obs) ==
    IF obs = <<>> THEN 0
    ELSE NamedValue(name, obs[1].fields) + SumOfField(name, Tail(obs))

\* the dict after the observations are merged, in their order, into an empty one
RECURSIVE Replay(_)
Replay(obs) ==
    IF obs = <<>> THEN [metrics |-> [k \in {} |-> None], order |-> <<>>]
    ELSE LET before == Replay(SubSeq(obs, 1, Len(obs) - 1))
             o == obs[Len(obs)]
             r == record_metrics_line(before.metrics, before.order, o.ms, o.name,
                                      o.fields)
         IN  [metrics |-> r.metrics, order |-> r.order]

\* C1 (as claimed): every stored avg is the stored sum floor-divided by the
\* stored count, and 0 when the count is 0, negative stored values included.
C1_AvgIsSumDivCount ==
    \A k \in DOMAIN metrics :
        LET t == metrics[k]
        IN  /\ t.count = 0 => t.avg = 0
            /\ t.count > 0 => (t.avg * t.count <= t.sum
                               /\ t.sum < t.avg * t.count + t.count)
            /\ t.count < 0 => (t.avg * t.count >= t.sum
                               /\ t.sum > t.avg * t.count + t.count)

\* C1 (amended): every stored avg is the stored sum floor-divided by the stored
\* count when the count is positive, and 0 when the count is 0 or negative.
C1_AvgIsSumDivPositiveCount ==
    \A k \in DOMAIN metrics :
        LET t == metrics[k]
        IN  /\ t.count <= 0 => t.avg = 0
            /\ t.count > 0 => (t.avg * t.count <= t.sum
                               /\ t.sum < t.avg * t.count + t.count)

\* a key merged into twice whose sum its positive count does not divide, and a
\* key whose count is negative and whose sum is not 0
C1_Witness ==
    /\ \E k \in DOMAIN metrics :
           /\ metrics[k].count > 0
           /\ metrics[k].sum % metrics[k].count # 0
           /\ metrics[k].sum < 0
           /\ \E o \in Range(merged) :
                  MetricsKey(o.ms, o.name) = k /\ Len(ObservationsOf(o.ms, o.name)) >= 2
    /\ \E k \in DOMAIN metrics : metrics[k].count < 0 /\ metrics[k].sum > 0

\* the (bucket timestamp, name) pairs that records were merged under
MergedPairs == {<<o.ms, o.name>> : o \in Range(merged)}

\* C2: when the run is over, for the observations merged under one (bucket
\* timestamp, name) pair, the stored count, sum, max and errcount are the
\* arithmetic sums of the fields of those names over the observations (max too:
\* a sum, not a maximum), and merging the observations in any other order gives
\* the same tuple.
C2_SumsIndependentOfOrder ==
    pc = "done" =>
        \A pair \in MergedPairs :
            LET obs == ObservationsOf(pair[1], pair[2])
                key == MetricsKey(pair[1], pair[2])
            IN  /\ key \in DOMAIN metrics
                /\ metrics[key].count = SumOfField(s_count, obs)
                /\ metrics[key].sum = SumOfField(s_sum, obs)
                /\ metrics[key].max = SumOfField(s_max, obs)
                /\ metrics[key].errcount = SumOfField(s_err_count, obs)
                /\ \A p \in Permutations(1..Len(obs)) :
                       Replay([i \in 1..Len(obs) |-> obs[p[i]]]).metrics[key]
                           = metrics[key]

\* three different observations under one key, whose max values add up to more
\* than the largest of them
C2_Witness ==
    pc = "done" /\ \E o \in Range(merged) :
        LET obs == ObservationsOf(o.ms, o.name)
        IN  /\ Len(obs) = 3
            /\ Cardinality(Range(obs)) = 3
            /\ \A i \in 1..3 : NamedValue(s_max, obs[i].fields) > 0
            /\ metrics[MetricsKey(o.ms, o.name)].max = 17

\* C8 (as claimed): a merge never decreases the stored count, sum, max or
\* errcount of a key that is already in the accumulator.
C8_FieldsNeverDecrease ==
    [][\A k \in DOMAIN metrics :
          /\ k \in DOMAIN metrics'
          /\ metrics'[k].count >= metrics[k].count
          /\ metrics'[k].sum >= metrics[k].sum
          /\ metrics'[k].max >= metrics[k].max
          /\ metrics'[k].errcount >= metrics[k].errcount]_vars

\* C8 (amended): a merge keeps every key, and it does not decrease a stored
\* count, sum, max or errcount unless the value the merged record gives for
\* that field is negative.
C8_FieldsDecreaseOnlyByNegativeValues ==
    [][\A k \in DOMAIN metrics :
          LET fields == SubSeq(last'.line, 4, Len(last'.line))
          IN  /\ k \in DOMAIN metrics'
              /\ (metrics' # metrics /\ field_value(s_count, fields).val >= 0)
                     => metrics'[k].count >= metrics[k].count
              /\ (metrics' # metrics /\ field_value(s_sum, fields).val >= 0)
                     => metrics'[k].sum >= metrics[k].sum
              /\ (metrics' # metrics /\ field_value(s_max, fields).val >= 0)
                     => metrics'[k].max >= metrics[k].max
              /\ (metrics' # metrics /\ field_value(s_err_count, fields).val >= 0)
                     => metrics'[k].errcount >= metrics[k].errcount]_vars

\* a key merged into three times, the last time by a record without negatives
C8_Witness ==
    /\ last.outcome = "recorded"
    /\ \A i \in 4..Len(last.line) : ValueOf(last.line[i]) >= 0
    /\ Len(ObservationsOf(last.ms[1], last.line[3])) = 3
    /\ metrics[MetricsKey(last.ms[1], last.line[3])].count > 2

-----------------------------------------------------------------------------
(* SpecKeys: runs without a window whose records have names made of        *)
(* digits and hyphens, at instants one of which is ten times the other.    *)

KeysArgs ==
    [aggregate : {None},
     sort : {DefaultSort, <<"name", "count">>},
     units : {"ns"},
     grep : {None},
     files : {<<File19700101>>}]

KeyNames == {<<"a">>, <<"-", "a">>, <<"0", "-", "a">>, <<"5", "0", "0", "0", "-", "a">>}

KeysLines ==
    {<<TimeOfDay(0, 0, 5), TIMING_RECORD, n, Field(s_count, 1), Field(s_sum, 3)>> :
         n \in KeyNames}
    \cup {<<TimeOfDay(0, 0, 50), TIMING_RECORD, n, Field(s_count, 2)>> : n \in KeyNames}

\* the number of lines a run of SpecKeys reads
MaxKeysLines == 3

InitKeys == InitWith(KeysArgs)

NextKeys == Step(KeysLines, MaxKeysLines)

SpecKeys == InitKeys /\ [][NextKeys]_vars

\* C9: the accumulator holds exactly one tuple per (bucket timestamp, name)
\* pair that a record was merged under: two merged records share a key iff
\* their timestamps are equal and their names are equal, the tuple of a pair
\* carries that pair's name and the count of that pair's records alone, and
\* a pair once merged keeps its tuple.
C9_OneTuplePerPair ==
    /\ Cardinality(DOMAIN metrics) = Cardinality(MergedPairs)
    /\ Len(key_order) = Cardinality(MergedPairs)
    /\ Range(key_order) = DOMAIN metrics
    /\ \A o1 \in Range(merged) : \A o2 \in Range(merged) :
           (MetricsKey(o1.ms, o1.name) = MetricsKey(o2.ms, o2.name))
               <=> (o1.ms = o2.ms /\ o1.name = o2.name)
    /\ \A pair \in MergedPairs :
           LET key == MetricsKey(pair[1], pair[2])
           IN  /\ key \in DOMAIN metrics
               /\ metrics[key].name = pair[2]
               /\ metrics[key].count
                      = SumOfField(s_count, ObservationsOf(pair[1], pair[2]))

\* records merged under (5000, '0-a') and (50000, '-a'), whose keys would be
\* equal without the separator, and a third record under the first pair
C9_Witness ==
    /\ <<5000, <<"0", "-", "a">>>> \in MergedPairs
    /\ <<50000, <<"-", "a">>>> \in MergedPairs
    /\ Len(merged) = 3
    /\ Cardinality(DOMAIN metrics) = 2

-----------------------------------------------------------------------------
(* SpecBucket: runs under windows of several widths, and under none, whose *)
(* records fall on, just before and just after window boundaries, before   *)
(* and after 1970-01-01 00:00:00.                                          *)

BucketArgs ==
    [aggregate : {None, Some(<<"1", "m">>), Some(<<"2", "M">>), Some(<<"1", "h">>),
                  Some(<<"1", "d">>)},
     sort : {DefaultSort},
     units : {"ns"},
     grep : {None},
     files : {<<File19700101>>, <<File19691231, File19700102>>}]

BucketTimes ==
    {TimeOfDay(0, 0, 0), TimeOfDay(0, 0, 59), TimeOfDay(0, 1, 0), TimeOfDay(0, 1, 59),
     TimeOfDay(0, 2, 0), TimeOfDay(1, 0, 0), TimeOfDay(23, 59, 59)}

BucketLines == {<<t, TIMING_RECORD, <<"a">>, Field(s_count, 1)>> : t \in BucketTimes}

\* the number of lines a run of SpecBucket reads
MaxBucketLines == 3

InitBucket == InitWith(BucketArgs)

NextBucket == Step(BucketLines, MaxBucketLines)

SpecBucket == InitBucket /\ [][NextBucket]_vars

\* C3: without a window the bucket key of a record is its instant; under a
\* window of positive width w the key is the multiple of w with
\* key <= instant < key + w, that is w * floor(instant / w), and two records
\* get the same key iff their instants lie in the same interval [w*k, w*(k+1)).
C3_BucketIsFloorMultiple ==
    LET w == milliseconds_aggregation
    IN  \A o1 \in Range(merged) :
            /\ w = None => o1.ms = o1.instant
            /\ (w # None /\ w[1] > 0) =>
                   /\ o1.ms % w[1] = 0
                   /\ o1.ms <= o1.instant
                   /\ o1.instant < o1.ms + w[1]
                   /\ \A o2 \in Range(merged) :
                          (o1.ms = o2.ms)
                              <=> (o1.ms <= o2.instant /\ o2.instant < o1.ms + w[1])

\* under a two-minute window: a record of 1969 just before a boundary, one on
\* the boundary and one later in that window
C3_Witness ==
    /\ milliseconds_aggregation = Some(120000)
    /\ \E o \in Range(merged) : o.instant = -1000 /\ o.ms = -120000
    /\ \E o \in Range(merged) : o.instant = 86400000 /\ o.ms = 86400000
    /\ \E o \in Range(merged) : o.instant = 86519000 /\ o.ms = 86400000

-----------------------------------------------------------------------------
(* SpecUnits: runs under every --units value that print sums, maxima and   *)
(* averages the divisors do not divide, negative ones included.            *)

UnitsArgs ==
    [aggregate : {Some(<<"1", "m">>)},
     sort : {DefaultSort, <<"sum">>},
     units : {"ns", "us", "ms", "sec"},
     grep : {None},
     files : {<<File19700101>>}]

UnitsLines ==
    {<<TimeOfDay(0, 0, 5), TIMING_RECORD, <<"a">>,
       Field(s_count, 1), Field(s_max, 1500000), Field(s_sum, 1500000)>>,
     <<TimeOfDay(0, 0, 5), TIMING_RECORD, <<"b">>,
       Field(s_count, 1), Field(s_max, 1500000), Field(s_sum, 1500000)>>,
     <<TimeOfDay(0, 1, 5), TIMING_RECORD, <<"a">>,
       Field(s_count, 2000), Field(s_max, 1999), Field(s_sum, 4001999),
       Field(s_err_count, 1000)>>,
     <<TimeOfDay(0, 1, 5), TIMING_RECORD, <<"b">>,
       Field(s_count, 3), Field(s_max, -999), Field(s_sum, -1500001),
       Field(s_err_count, 1)>>}

\* the number of lines a run of SpecUnits reads
MaxUnitsLines == 3

InitUnits == InitWith(UnitsArgs)

NextUnits == Step(UnitsLines, MaxUnitsLines)

SpecUnits == InitUnits /\ [][NextUnits]_vars

\* the number a printed field shows
Shown(text) == PyInt(text).val

\* C7: every printed row shows the tuple's sum, max and avg floor-divided by
\* the unit divisor (1000 for 'ms', 1000000 for 'sec', 1 otherwise) and its
\* count and errcount as they are; a sum of 1500000 shows as 1 with 'sec',
\* 1500 with 'ms' and 1500000 otherwise.
C7_RenderedDividedByUnit ==
    LET d == IF args.units = "ms" THEN 1000
             ELSE IF args.units = "sec" THEN 1000000 ELSE 1
    IN  \A i \in 1..Len(output) :
            LET row == output[i]
                mt == sorted_metrics[i]
                floored(shown, stored) == shown * d <= stored /\ stored < shown * d + d
            IN  /\ PyInt(row.sum).ok /\ PyInt(row.max).ok /\ PyInt(row.avg).ok
                /\ PyInt(row.count).ok /\ PyInt(row.errcount).ok
                /\ floored(Shown(row.sum), mt.sum)
                /\ floored(Shown(row.max), mt.max)
                /\ floored(Shown(row.avg), mt.avg)
                /\ Shown(row.count) = mt.count
                /\ Shown(row.errcount) = mt.errcount
                /\ mt.sum = 1500000 =>
                       Shown(row.sum) = IF args.units = "sec" THEN 1
                                        ELSE IF args.units = "ms" THEN 1500
                                        ELSE 1500000

\* with 'sec', a printed row of a tuple whose sum is 1500000, and a printed row
\* of a tuple whose count and errcount are 1000 or more and whose sum is not a
\* multiple of 1000000
C7_Witness ==
    /\ args.units = "sec"
    /\ \E i \in 1..Len(output) :
           sorted_metrics[i].sum = 1500000 /\ Shown(output[i].sum) = 1
    /\ \E i \in 1..Len(output) :
           /\ sorted_metrics[i].count >= 1000
           /\ sorted_metrics[i].errcount >= 1000
           /\ sorted_metrics[i].sum % 1000000 # 0

====
